---------------------------- MODULE Spec2Model ----------------------------
(***************************************************************************)
(* Authorization / audit core of the backend kit: credential verifier,     *)
(* edge middleware, server-side role guard, audit-log sink and the two     *)
(* state-changing API handlers (POST /api/shop, POST /api/courses).        *)
(*                                                                         *)
(* JavaScript values are tagged records ([t |-> "string", s |-> chars],    *)
(* [t |-> "undefined"], ...), strings that the code inspects are sequences *)
(* of one-character strings, and every handler is one action that leaves   *)
(* its result, with the ordered trace of the calls it made, in `last`.     *)
(***************************************************************************)
EXTENDS Integers, Sequences, FiniteSets, TLC

VARIABLES
    userRole,     \* User.role column, by user id
    cookie,       \* the session cookie the client presents
    now,          \* wall clock read by `new Date()`
    calls,        \* audit-sink calls made so far (one record per call)
    activityLog,  \* ActivityLog table, in insertion order
    deleted,      \* ids of ActivityLog rows whose deletedAt is set
    courses,      \* Course table, in insertion order
    process,      \* the Node process: shutdown handlers, shutdowns, exit
    last          \* result of the most recent operation

vars ==
    <<userRole, cookie, now, calls, activityLog, deleted, courses, process,
      last>>

(***************************** bounds ***************************************)
MaxTime == 1
MaxCalls == 1
MaxCourses == 1

(***************************** JS values ************************************)
Undefined == [t |-> "undefined"]
Null == [t |-> "null"]
Str(chars) == [t |-> "string", s |-> chars]
Rep(c, n) == [i \in 1..n |-> c]

IsString(v) == v.t = "string"

(***************************** roles and users ******************************)
Roles == {"CUSTOMER", "LEARNER", "WRITER", "SELLER", "ADMIN"}

UserIds == {"u1", "u2", "u3"}

\* users whose role the administrative write path changes in this model
RoleChangeUsers == {"u1"}

Email1 == <<"a", "@", "a", ".", "a", "a">>
Email2 == <<"b", "@", "a", ".", "a", "a">>
Email3 == <<"c", "@", "a", ".", "a", "a">>
EmailUnknown == <<"a", "1", "@", "a", ".", "a", "a">>

Password1 == Rep("x", 8)
Password2 == Rep("y", 9)

\* hashPassword / verifyPassword: opaque primitives of lib/auth-helpers
hashPassword(pw) == <<"#">> \o pw
verifyPassword(pw, digest) == digest = hashPassword(pw)

\* the static columns of the User table; u3 was created without a password
UserRow(id) ==
    CASE id = "u1" -> [id |-> "u1", email |-> Email1, username |-> "user1",
                       password |-> Str(hashPassword(Password1))]
      [] id = "u2" -> [id |-> "u2", email |-> Email2, username |-> "user2",
                       password |-> Str(hashPassword(Password2))]
      [] OTHER     -> [id |-> "u3", email |-> Email3, username |-> "user3",
                       password |-> Null]

(***************************** login schema *********************************)
Letters == {"a", "b", "c", "x", "y"}
Digits == {"1"}
AlNum == Letters \cup Digits
LocalChars == AlNum \cup {"_", "'", "+", "-", "."}

Positions(s, c) == {i \in 1..Len(s) : s[i] = c}

\* ([A-Z0-9][A-Z0-9\-]*\.)+[A-Z]{2,} on the part after the "@"
IsDomain(d) ==
    LET dots == Positions(d, ".")
        lastDot == IF dots = {} THEN 0
                   ELSE CHOOSE i \in dots : \A j \in dots : j <= i
    IN  /\ dots # {}
        /\ Len(d) - lastDot >= 2
        /\ \A i \in (lastDot + 1)..Len(d) : d[i] \in Letters
        /\ \A i \in 1..lastDot :
              IF i = 1 \/ d[i - 1] = "."
              THEN d[i] \in AlNum
              ELSE d[i] \in AlNum \cup {"-", "."}

\* z.string().email(): ^(?!\.)(?!.*\.\.)([A-Z0-9_'+\-\.]*)[A-Z0-9_+-]@<domain>$
IsEmail(s) ==
    LET ats == Positions(s, "@")
        k == IF ats = {} THEN 0 ELSE CHOOSE i \in ats : TRUE
    IN  /\ Cardinality(ats) = 1
        /\ k >= 2
        /\ s[1] # "."
        /\ \A i \in 1..(Len(s) - 1) : ~(s[i] = "." /\ s[i + 1] = ".")
        /\ \A i \in 1..(k - 1) : s[i] \in LocalChars
        /\ s[k - 1] \in AlNum \cup {"_", "+", "-"}
        /\ IsDomain(SubSeq(s, k + 1, Len(s)))

MinPasswordLen == 8

\* issues of one field, in zod's wording
EmailIssues(v) ==
    IF ~IsString(v) THEN <<"Required">>
    ELSE IF ~IsEmail(v.s) THEN <<"Invalid email address">>
    ELSE <<>>

\* mutant: the minimum length is checked off by one
PasswordIssuesOffByOne(v) ==
    IF ~IsString(v) THEN <<"Required">>
    ELSE IF Len(v.s) < MinPasswordLen - 1
         THEN <<"Password must be at least 8 characters">>
    ELSE <<>>

PasswordIssues(v) ==
    IF ~IsString(v) THEN <<"Required">>
    ELSE IF Len(v.s) < MinPasswordLen
         THEN <<"Password must be at least 8 characters">>
    ELSE <<>>

\* loginSchema.safeParse(credentials); credentials is an object or undefined
loginSchema(credentials) ==
    IF credentials.t # "object"
    THEN [success |-> FALSE, issues |-> <<"Required">>]
    ELSE LET issues == EmailIssues(credentials.email)
                       \o PasswordIssues(credentials.password)
         IN  IF issues = <<>>
             THEN [success |-> TRUE, issues |-> <<>>,
                   email |-> credentials.email.s,
                   password |-> credentials.password.s]
             ELSE [success |-> FALSE, issues |-> issues]

(***************************** credential verifier **************************)
RECURSIVE JoinWith(_, _)
\* Array.prototype.join over message parts
JoinWith(parts, sep) ==
    IF Len(parts) = 0 THEN <<>>
    ELSE IF Len(parts) = 1 THEN <<parts[1]>>
    ELSE <<parts[1], sep>> \o JoinWith(Tail(parts), sep)

\* JavaScript truthiness of a tagged value
Falsy(v) ==
    \/ v.t \in {"undefined", "null"}
    \/ v.t = "string" /\ v.s = <<>>
    \/ v.t = "number" /\ v.n = 0
    \/ v.t = "boolean" /\ ~v.b

\* prisma.user.findUnique({ where: { email } }): the matching ids (none or one)
findUniqueByEmail(email) == {id \in UserIds : UserRow(id).email = email}

NoUser == [id |-> "none"]

\* mutant: the two causes get a message of their own
NotRegisteredErrorSplit(found) ==
    IF found = {} THEN <<"User not found">>
    ELSE <<"User is not registered with password">>

\* the error thrown when no user matches or the user has no password digest
NotRegisteredError(found) == <<"User not found or not registered with password">>

\* mutant: the returned role is the default whatever is stored
RoleAlwaysDefault(role) == "CUSTOMER"

\* user.role || Role.CUSTOMER
RoleOrDefault(role) == IF role = "" THEN "CUSTOMER" ELSE role

\* CredentialsProvider.authorize(credentials), with the stored roles `roles`
authorize(credentials, roles) ==
    LET parsed == loginSchema(credentials)
    IN  IF ~parsed.success
        THEN [ok |-> FALSE, user |-> NoUser,
              error |-> <<"Invalid credentials: ">> \o JoinWith(parsed.issues, "; "),
              trace |-> <<"loginSchema.safeParse">>]
        ELSE
        LET found == findUniqueByEmail(parsed.email)
        IN  IF found = {} \/ Falsy(UserRow(CHOOSE id \in found : TRUE).password)
            THEN [ok |-> FALSE, user |-> NoUser,
                  error |-> NotRegisteredError(found),
                  trace |-> <<"loginSchema.safeParse", "user.findUnique">>]
            ELSE
            LET user == UserRow(CHOOSE id \in found : TRUE)
            IN  IF ~verifyPassword(parsed.password, user.password.s)
                THEN [ok |-> FALSE, user |-> NoUser,
                      error |-> <<"Invalid password">>,
                      trace |-> <<"loginSchema.safeParse", "user.findUnique",
                                  "verifyPassword">>]
                ELSE [ok |-> TRUE,
                      user |-> [id |-> user.id, email |-> user.email,
                                name |-> user.username,
                                role |-> RoleOrDefault(roles[user.id])],
                      error |-> <<>>,
                      trace |-> <<"loginSchema.safeParse", "user.findUnique",
                                  "verifyPassword">>]

(***************************** session cookie *******************************)
NoCookie == [t |-> "none"]
BadCookie == [t |-> "invalid"]

\* the token issued for a freshly authenticated user: subject id and a copy
\* of the role as it was at login
IssueToken(user) == [t |-> "jwt", sub |-> user.id, role |-> user.role]

\* getToken({ req, secret }): the decoded token, or null when the cookie is
\* absent or does not verify
getToken(c) ==
    IF c.t = "jwt" THEN [t |-> "token", sub |-> c.sub, role |-> c.role]
    ELSE Null

(***************************** edge middleware ******************************)
\* URLSearchParams.set / get on an ordered list of name-value pairs
searchParamsSet(search, name, value) ==
    IF \E i \in 1..Len(search) : search[i].name = name
    THEN LET first == CHOOSE i \in 1..Len(search) :
                        /\ search[i].name = name
                        /\ \A j \in 1..(i - 1) : search[j].name # name
         IN  [i \in 1..Len(search) |->
                 IF i = first THEN [name |-> name, value |-> value] ELSE search[i]]
    ELSE Append(search, [name |-> name, value |-> value])

searchParamsGet(search, name) ==
    IF \E i \in 1..Len(search) : search[i].name = name
    THEN LET first == CHOOSE i \in 1..Len(search) :
                        /\ search[i].name = name
                        /\ \A j \in 1..(i - 1) : search[j].name # name
         IN  search[first].value
    ELSE <<"null">>

\* new URL('/login', request.url): same origin, the given path, no query
LoginUrl == [pathname |-> <<"login">>, search |-> <<>>]

\* mutant: the redirect forgets where the request was going
middlewareNoCallback(c, pathname) ==
    IF getToken(c) = Null
    THEN [type |-> "redirect", url |-> LoginUrl]
    ELSE [type |-> "next", url |-> [pathname |-> pathname, search |-> <<>>]]

\* mutant: the middleware gates the admin dashboard on the token's role claim
middlewareRoleGate(c, pathname) ==
    LET token == getToken(c)
        toLogin == [type |-> "redirect",
                    url |-> [LoginUrl EXCEPT
                               !.search = searchParamsSet(@, "callbackUrl", pathname)]]
    IN  IF token = Null THEN toLogin
        ELSE IF pathname = <<"dashboard", "admin">> /\ token.role # "ADMIN"
        THEN toLogin
        ELSE [type |-> "next", url |-> [pathname |-> pathname, search |-> <<>>]]

\* middleware(request): redirect to /login when there is no token, else next()
middleware(c, pathname) ==
    LET token == getToken(c)
    IN  IF token = Null
        THEN [type |-> "redirect",
              url |-> [LoginUrl EXCEPT
                         !.search = searchParamsSet(@, "callbackUrl", pathname)]]
        ELSE [type |-> "next", url |-> [pathname |-> pathname, search |-> <<>>]]

\* config.matcher: '/dashboard/:path*'
Matches(pathname) == Len(pathname) >= 1 /\ pathname[1] = "dashboard"

\* what the framework does with a request: run the middleware on a matched
\* path, hand every other request to its route untouched
EdgeHandle(c, pathname) ==
    IF Matches(pathname) THEN middleware(c, pathname)
    ELSE [type |-> "next", url |-> [pathname |-> pathname, search |-> <<>>]]

\* mutant: the middleware records the redirect in the audit trail
middlewareAuditsFailure(c, pathname) ==
    IF getToken(c) = Null
    THEN [fn |-> "logAuthFailure",
          entry |-> [userId |-> "anonymous", userRole |-> Undefined,
                     route |-> pathname, reason |-> <<"No valid session">>,
                     action |-> Undefined, extra |-> Undefined]]
    ELSE [fn |-> "none"]

\* the audit write the middleware issues: none, it reports to the logger only
middlewareAudit(c, pathname) == [fn |-> "none"]

TokenFailures == {"raises", "timeout"}

\* mutant: the middleware catches a failed token validation and lets the
\* request through
middlewareFailOpen(failure, pathname) ==
    [type |-> "next", url |-> [pathname |-> pathname, search |-> <<>>]]

\* middleware(request) when `await getToken(...)` does not complete: nothing
\* catches, so the rejection (or the wait) is the middleware's own
middlewareTokenFailure(failure, pathname) ==
    [type |-> failure, url |-> [pathname |-> pathname, search |-> <<>>]]

\* what the framework does with such a request: a middleware that raised is
\* answered with 500 and one that ran out of time with 504; the route is
\* invoked after a next() only
EdgeHandleFailure(failure, pathname) ==
    IF ~Matches(pathname)
    THEN [type |-> "next", status |-> 200,
          url |-> [pathname |-> pathname, search |-> <<>>]]
    ELSE LET r == middlewareTokenFailure(failure, pathname)
         IN  IF r.type = "raises" THEN [r EXCEPT !.type = "error"] @@ [status |-> 500]
             ELSE IF r.type = "timeout"
             THEN [r EXCEPT !.type = "error"] @@ [status |-> 504]
             ELSE r @@ [status |-> 200]

(***************************** audit-log sink *******************************)
Text(x) == Str(<<x>>)

\* a || b on optional strings
OrElse(v, default) == IF Falsy(v) THEN default ELSE v.s

\* an optional column as Prisma stores it: undefined is written as NULL
Column(v) == IF v.t = "undefined" THEN Null ELSE v

\* mutant: logAccessDenied defaults to the wrong action kind
logAccessDeniedWrongKind(entry, id, ts) ==
    [id |-> id, userId |-> entry.userId, userRole |-> Column(entry.userRole),
     route |-> entry.route, reason |-> entry.reason,
     action |-> OrElse(entry.action, <<"ALLOWED_ACCESS">>),
     pointsEarned |-> 0, createdBy |-> entry.userId, timestamp |-> ts]

\* the row each write operation hands to prisma.activityLog.create
logAccessDenied(entry, id, ts) ==
    [id |-> id, userId |-> entry.userId, userRole |-> Column(entry.userRole),
     route |-> entry.route, reason |-> entry.reason,
     action |-> OrElse(entry.action, <<"DENIED_ACCESS">>),
     pointsEarned |-> 0, createdBy |-> entry.userId, timestamp |-> ts]

logAccessAllowed(entry, id, ts) ==
    [id |-> id, userId |-> entry.userId, userRole |-> Column(entry.userRole),
     route |-> entry.route, reason |-> entry.reason,
     action |-> OrElse(entry.action, <<"ALLOWED_ACCESS">>),
     pointsEarned |-> 0, createdBy |-> entry.userId, timestamp |-> ts]

\* mutant: the creator of an auth-failure row is a fixed system account
logAuthFailureBySystem(entry, id, ts) ==
    [id |-> id, userId |-> entry.userId, userRole |-> Null,
     route |-> entry.route, reason |-> entry.reason,
     action |-> OrElse(entry.action, <<"AUTH_FAILURE">>),
     pointsEarned |-> 0, createdBy |-> "system", timestamp |-> ts]

logAuthFailure(entry, id, ts) ==
    [id |-> id, userId |-> entry.userId, userRole |-> Null,
     route |-> entry.route, reason |-> entry.reason,
     action |-> OrElse(entry.action, <<"AUTH_FAILURE">>),
     pointsEarned |-> 0, createdBy |-> entry.userId, timestamp |-> ts]

logRoleValidationFailure(entry, id, ts) ==
    [id |-> id, userId |-> entry.userId, userRole |-> Column(entry.userRole),
     route |-> entry.route,
     reason |-> IF Falsy(entry.extra) THEN entry.reason
                ELSE entry.reason \o <<" (Required: ">> \o entry.extra.s \o <<")">>,
     action |-> OrElse(entry.action, <<"ROLE_VALIDATION_FAILED">>),
     pointsEarned |-> 0, createdBy |-> entry.userId, timestamp |-> ts]

logFeatureDenied(entry, id, ts) ==
    [id |-> id, userId |-> entry.userId, userRole |-> Column(entry.userRole),
     route |-> entry.route,
     reason |-> IF Falsy(entry.extra) THEN entry.reason
                ELSE <<"Feature denied: ">> \o entry.extra.s \o <<". ">>
                     \o entry.reason,
     action |-> OrElse(entry.action, <<"FEATURE_DENIED">>),
     pointsEarned |-> 0, createdBy |-> entry.userId, timestamp |-> ts]

SinkFns ==
    {"logAccessDenied", "logAccessAllowed", "logAuthFailure",
     "logRoleValidationFailure", "logFeatureDenied"}

LogEntryOf(fn, entry, id, ts) ==
    CASE fn = "logAccessDenied" -> logAccessDenied(entry, id, ts)
      [] fn = "logAccessAllowed" -> logAccessAllowed(entry, id, ts)
      [] fn = "logAuthFailure" -> logAuthFailure(entry, id, ts)
      [] fn = "logRoleValidationFailure" -> logRoleValidationFailure(entry, id, ts)
      [] OTHER -> logFeatureDenied(entry, id, ts)

\* mutant: the catch block issues the create again
SinkRetries(createOk) == IF createOk THEN "resolved" ELSE "pending"

\* mutant: the catch block rethrows
SinkRethrows(createOk) == IF createOk THEN "resolved" ELSE "rejected"

\* how the promise of a write operation settles once the create has settled:
\* the try block falls through on success, the catch block swallows a failure
SinkSettles(createOk) == IF createOk THEN "resolved" ELSE "resolved"

\* the synchronous part of a write operation: build the row (crypto.randomUUID,
\* new Date()) and issue the create; the call stays pending until it settles.
\* attempts counts the creates the call has issued
StartCall(fn, entry, callsNow, clock) ==
    [fn |-> fn, state |-> "pending", created |-> FALSE, attempts |-> 1,
     row |-> LogEntryOf(fn, entry, Len(callsNow) + 1, clock)]

(***************************** audit-log reads ******************************)
DefaultDays == 30
DefaultLimit == 100
TopCount == 10

\* v ?? default on an optional number
Nullish(v, default) == IF v.t \in {"undefined", "null"} THEN default ELSE v.n

\* the orders in which storage may hand back n rows when none is asked for
ScanOrders(n) ==
    {p \in [1..n -> 1..n] : \A i, j \in 1..n : i # j => p[i] # p[j]}

\* a stable sort of [key, val] pairs by descending key
RECURSIVE SortDesc(_)
SortDesc(s) ==
    IF s = <<>> THEN <<>>
    ELSE LET rest == SortDesc(SubSeq(s, 1, Len(s) - 1))
             x == s[Len(s)]
             k == Cardinality({i \in 1..Len(rest) : rest[i].key >= x.key})
         IN  SubSeq(rest, 1, k) \o <<x>> \o SubSeq(rest, k + 1, Len(rest))

\* orderBy: { timestamp: 'desc' }
OrderByTimestampDesc(rows) ==
    LET sorted == SortDesc([i \in 1..Len(rows) |->
                              [key |-> rows[i].timestamp, val |-> rows[i]]])
    IN  [i \in 1..Len(rows) |-> sorted[i].val]

\* take: n
Take(rows, n) == SubSeq(rows, 1, IF n < Len(rows) THEN n ELSE Len(rows))

\* mutant: the where clause does not look at the action
DenialRowsOfAnyAction(table, del, scan, action, sinceDate) ==
    LET scanned == [i \in 1..Len(table) |-> table[scan[i]]]
        Keep(row) == row.timestamp >= sinceDate /\ row.id \notin del
    IN  SelectSeq(scanned, Keep)

\* the rows of the table in scan order that are not soft-deleted, carry the
\* action and are no older than sinceDate: the where clause all reads share
DenialRows(table, del, scan, action, sinceDate) ==
    LET scanned == [i \in 1..Len(table) |-> table[scan[i]]]
        Keep(row) == /\ row.action = action
                     /\ row.timestamp >= sinceDate
                     /\ row.id \notin del
    IN  SelectSeq(scanned, Keep)

\* mutant: the catch block of a read rethrows
ReadRethrows(findOk, value, empty) ==
    IF findOk THEN [outcome |-> "return", value |-> value]
    ELSE [outcome |-> "throw", value |-> empty]

\* try { return value } catch { logger.error(...); return empty }
ReadSettles(findOk, value, empty) ==
    IF findOk THEN [outcome |-> "return", value |-> value]
    ELSE [outcome |-> "return", value |-> empty]

\* a read's result together with the rows findMany handed it
ReadResult(findOk, rows, value, empty) ==
    [read |-> IF findOk THEN rows ELSE <<>>] @@ ReadSettles(findOk, value, empty)

getAccessDenialLogs(userId, options, table, del, clock, scan, findOk) ==
    LET sinceDate == clock - Nullish(options.days, DefaultDays)
        ForUser(row) == row.userId = userId
        rows == Take(OrderByTimestampDesc(SelectSeq(
                    DenialRows(table, del, scan,
                               OrElse(options.action, <<"DENIED_ACCESS">>),
                               sinceDate), ForUser)),
                     Nullish(options.limit, DefaultLimit))
    IN  ReadResult(findOk, rows, rows, <<>>)

getAccessDenialsByRole(role, options, table, del, clock, scan, findOk) ==
    LET sinceDate == clock - Nullish(options.days, DefaultDays)
        ForRole(row) == row.userRole = Str(role)
        rows == Take(OrderByTimestampDesc(SelectSeq(
                    DenialRows(table, del, scan, <<"DENIED_ACCESS">>, sinceDate),
                    ForRole)),
                     Nullish(options.limit, DefaultLimit))
    IN  ReadResult(findOk, rows, rows, <<>>)

getAccessDenialsByRoute(route, options, table, del, clock, scan, findOk) ==
    LET sinceDate == clock - Nullish(options.days, DefaultDays)
        ForRoute(row) == row.route = route
        rows == Take(OrderByTimestampDesc(SelectSeq(
                    DenialRows(table, del, scan, <<"DENIED_ACCESS">>, sinceDate),
                    ForRoute)),
                     Nullish(options.limit, DefaultLimit))
    IN  ReadResult(findOk, rows, rows, <<>>)

\* the keys of a Record<string, number> in insertion order: the distinct
\* elements of `keys` in order of first appearance
RECURSIVE FirstSeen(_)
FirstSeen(keys) ==
    IF keys = <<>> THEN <<>>
    ELSE LET before == FirstSeen(SubSeq(keys, 1, Len(keys) - 1))
             x == keys[Len(keys)]
         IN  IF \E i \in 1..Len(before) : before[i] = x THEN before
             ELSE Append(before, x)

\* log.userRole || 'UNKNOWN' and log.route || 'UNKNOWN'
RoleKey(row) == OrElse(row.userRole, <<"UNKNOWN">>)
RouteKey(row) == IF row.route = <<>> THEN <<"UNKNOWN">> ELSE row.route

\* mutant: a key is counted once however often it occurs
CountMapPresence(keys) == [k \in {keys[i] : i \in 1..Len(keys)} |-> 1]

\* the count map built by forEach over `keys`
CountMap(keys) ==
    [k \in {keys[i] : i \in 1..Len(keys)} |->
        Cardinality({i \in 1..Len(keys) : keys[i] = k})]

\* Object.entries(map).map(...).sort((a, b) => b.count - a.count).slice(0, 10)
TopEntries(keys) ==
    LET order == FirstSeen(keys)
        counts == CountMap(keys)
        sorted == SortDesc([i \in 1..Len(order) |->
                              [key |-> counts[order[i]], val |-> order[i]]])
    IN  Take([i \in 1..Len(sorted) |->
                 [name |-> sorted[i].val, count |-> sorted[i].key]], TopCount)

EmptySummary ==
    [totalDenials |-> 0, denialsByRole |-> CountMap(<<>>),
     denialsByRoute |-> CountMap(<<>>), topDeniedRoutes |-> <<>>,
     topDeniedRoles |-> <<>>]

getAccessDenialSummary(options, table, del, clock, scan, findOk) ==
    LET sinceDate == clock - Nullish(options.days, DefaultDays)
        denials == DenialRows(table, del, scan, <<"DENIED_ACCESS">>, sinceDate)
        roles == [i \in 1..Len(denials) |-> RoleKey(denials[i])]
        routes == [i \in 1..Len(denials) |-> RouteKey(denials[i])]
    IN  ReadResult(findOk, denials,
                   [totalDenials |-> Len(denials),
                    denialsByRole |-> CountMap(roles),
                    denialsByRoute |-> CountMap(routes),
                    topDeniedRoutes |-> TopEntries(routes),
                    topDeniedRoles |-> TopEntries(roles)],
                   EmptySummary)

(***************************** server-side guard ****************************)
NoAudit == [fn |-> "none"]
NoSession == [user |-> [id |-> "none", role |-> "none"]]
NoError == [kind |-> "none", statusCode |-> 0, message |-> <<>>]

SeqToSet(q) == {q[i] : i \in 1..Len(q)}

AuditEntry(userId, role, route, reason) ==
    [userId |-> userId, userRole |-> role, route |-> route, reason |-> reason,
     action |-> Undefined, extra |-> Undefined]

\* mutant: the guard trusts the role claim carried by the token
ClaimedRole(token, roles) == token.role

\* the role the guard judges by: read from storage for the token's subject
AuthoritativeRole(token, roles) == roles[token.sub]

\* mutant: an empty required-roles list is not rejected
EmptyRequiredIgnored(required) == FALSE

\* an empty required-roles list is a configuration error
EmptyRequired(required) == Len(required) = 0

\* mutant: only the first required role is honoured
RolePermittedFirstOnly(role, required) == role = required[1]

\* several required roles are alternatives: any one of them suffices
RolePermitted(role, required) == role \in SeqToSet(required)

\* requireRole(required): the role is read from storage (`roles`) for the
\* subject of the session, never from the token's role claim
requireRole(required, c, roles, route, logOnSuccess) ==
    LET token == getToken(c)
        role == AuthoritativeRole(token, roles)
    IN  IF EmptyRequired(required)
        THEN [outcome |-> "throw", session |-> NoSession, audit |-> NoAudit,
              error |-> [kind |-> "ConfigurationError", statusCode |-> 0,
                         message |-> <<"requireRole needs at least one role">>]]
        ELSE IF token = Null
        THEN [outcome |-> "throw", session |-> NoSession,
              error |-> [kind |-> "AuthorizationError", statusCode |-> 401,
                         message |-> <<"Unauthorized">>],
              audit |-> [fn |-> "logAuthFailure",
                         entry |-> AuditEntry("anonymous", Undefined, route,
                                              <<"No valid session">>)]]
        ELSE IF ~RolePermitted(role, required)
        THEN [outcome |-> "throw", session |-> NoSession,
              error |-> [kind |-> "AuthorizationError", statusCode |-> 403,
                         message |-> <<"Forbidden">>],
              audit |-> [fn |-> "logAccessDenied",
                         entry |-> AuditEntry(token.sub, Text(role), route,
                                     <<"Insufficient role: ", role,
                                       " is not in [">>
                                     \o JoinWith(required, ", ") \o <<"]">>)]]
        ELSE [outcome |-> "allow", error |-> NoError,
              session |-> [user |-> [id |-> token.sub, role |-> role]],
              audit |-> IF logOnSuccess
                        THEN [fn |-> "logAccessAllowed",
                              entry |-> AuditEntry(token.sub, Text(role),
                                          route, <<"Authorized">>)]
                        ELSE NoAudit]

\* mutant: the guard awaits its audit write, returning once it has settled
IssueAuditAwaited(audit, callsNow, clock) ==
    IF audit.fn = "none" THEN callsNow
    ELSE Append(callsNow,
                [StartCall(audit.fn, audit.entry, callsNow, clock)
                    EXCEPT !.state = "resolved"])

\* the guard issues its audit write without awaiting it
IssueAudit(audit, callsNow, clock) ==
    IF audit.fn = "none" THEN callsNow
    ELSE Append(callsNow, StartCall(audit.fn, audit.entry, callsNow, clock))

\* mutant: the creator is not recorded
withCreatedByNobody(data, userId) == data

\* withCreatedBy(data, userId)
withCreatedBy(data, userId) == [data EXCEPT !.createdBy = userId]

(***************************** order schema *********************************)
Num(n) == [t |-> "number", n |-> n, frac |-> 0]
Bool(b) == [t |-> "boolean", b |-> b]
\* a number that is no integer: n + tenths/10 with tenths in 1..9
Float(n, tenths) == [t |-> "number", n |-> n, frac |-> tenths]

\* zod's invalid_type message: "Required" for an absent value
TypeMessage(v, expected) ==
    IF v.t = "undefined" THEN "Required" ELSE "Expected " \o expected

\* z.string().min(1, { message })
RequiredStringIssues(v, path, message) ==
    IF ~IsString(v) THEN <<[path |-> path, message |-> TypeMessage(v, "string")]>>
    ELSE IF Len(v.s) < 1 THEN <<[path |-> path, message |-> message]>>
    ELSE <<>>

\* z.string().optional()
OptionalStringIssues(v, path) ==
    IF v.t = "undefined" \/ IsString(v) THEN <<>>
    ELSE <<[path |-> path, message |-> "Expected string"]>>

\* mutant: quantity 0 passes
QuantityIssuesMinZero(v, path) ==
    IF v.t # "number" THEN <<[path |-> path, message |-> TypeMessage(v, "number")]>>
    ELSE (IF v.frac # 0
          THEN <<[path |-> path, message |-> "Expected integer, received float"]>>
          ELSE <<>>)
         \o
         (IF v.n < 0
          THEN <<[path |-> path, message |-> "quantity must be at least 1"]>>
          ELSE <<>>)

\* z.number().int().min(1, { message })
QuantityIssues(v, path) ==
    IF v.t # "number" THEN <<[path |-> path, message |-> TypeMessage(v, "number")]>>
    ELSE (IF v.frac # 0
          THEN <<[path |-> path, message |-> "Expected integer, received float"]>>
          ELSE <<>>)
         \o
         (IF v.n < 1
          THEN <<[path |-> path, message |-> "quantity must be at least 1"]>>
          ELSE <<>>)

\* orderItemSchema on element i of items
orderItemIssues(item, i) ==
    IF item.t # "object"
    THEN <<[path |-> <<"items", ToString(i)>>, message |-> "Expected object"]>>
    ELSE RequiredStringIssues(item.productId, <<"items", ToString(i), "productId">>,
                              "productId is required")
         \o QuantityIssues(item.quantity, <<"items", ToString(i), "quantity">>)

RECURSIVE ItemsIssues(_, _)
ItemsIssues(items, i) ==
    IF i > Len(items) THEN <<>>
    ELSE orderItemIssues(items[i], i) \o ItemsIssues(items, i + 1)

\* the parsed output of z.object: keys the schema does not name are dropped
StripItem(item) == [item EXCEPT !.extra = Undefined]

StripOrder(body) ==
    [body EXCEPT !.extra = Undefined,
                 !.items = [t |-> "array",
                            a |-> [i \in 1..Len(body.items.a) |->
                                      StripItem(body.items.a[i])]]]

\* orderSchema.safeParse(body)
orderSchema(body) ==
    IF body.t # "object"
    THEN [success |-> FALSE,
          issues |-> <<[path |-> <<>>, message |-> "Expected object"]>>]
    ELSE
    LET itemsIssues ==
            IF body.items.t # "array"
            THEN <<[path |-> <<"items">>,
                    message |-> TypeMessage(body.items, "array")]>>
            ELSE (IF Len(body.items.a) < 1
                  THEN <<[path |-> <<"items">>,
                          message |-> "At least one order item is required"]>>
                  ELSE <<>>)
                 \o ItemsIssues(body.items.a, 1)
        issues == OptionalStringIssues(body.userId, <<"userId">>)
                  \o itemsIssues
                  \o OptionalStringIssues(body.shippingAddress, <<"shippingAddress">>)
                  \o OptionalStringIssues(body.paymentMethod, <<"paymentMethod">>)
    IN  IF issues = <<>>
        THEN [success |-> TRUE, issues |-> <<>>, data |-> StripOrder(body)]
        ELSE [success |-> FALSE, issues |-> issues]

(***************************** product schema *******************************)
\* z.number().int().nonnegative({ message })
NonNegativeIntIssues(v, path, message) ==
    IF v.t # "number" THEN <<[path |-> path, message |-> TypeMessage(v, "number")]>>
    ELSE (IF v.frac # 0
          THEN <<[path |-> path, message |-> "Expected integer, received float"]>>
          ELSE <<>>)
         \o
         (IF v.n < 0 THEN <<[path |-> path, message |-> message]>> ELSE <<>>)

ProductStatuses == {<<"ACTIVE">>, <<"INACTIVE">>, <<"DISCONTINUED">>}

\* z.enum([...]).optional()
StatusIssues(v, path) ==
    IF v.t = "undefined" THEN <<>>
    ELSE IF IsString(v) /\ v.s \in ProductStatuses THEN <<>>
    ELSE <<[path |-> path, message |-> "Invalid enum value"]>>

\* mutant: an absent stock stays absent
StockDefaultMissing(v) == v

\* .default(0): an absent value is replaced before the inner schema runs
StockDefault(v) == IF v.t = "undefined" THEN Num(0) ELSE v

\* productSchema.safeParse(body)
productSchema(body) ==
    IF body.t # "object"
    THEN [success |-> FALSE,
          issues |-> <<[path |-> <<>>, message |-> "Expected object"]>>]
    ELSE
    LET stock == StockDefault(body.stock)
        issues ==
            RequiredStringIssues(body.name, <<"name">>, "Name is required")
            \o RequiredStringIssues(body.slug, <<"slug">>, "Slug is required")
            \o OptionalStringIssues(body.description, <<"description">>)
            \o NonNegativeIntIssues(body.price, <<"price">>,
                    "Price must be a non-negative integer (cents)")
            \o OptionalStringIssues(body.sku, <<"sku">>)
            \o NonNegativeIntIssues(stock, <<"stock">>,
                    "Number must be greater than or equal to 0")
            \o StatusIssues(body.status, <<"status">>)
    IN  IF issues = <<>>
        THEN [success |-> TRUE, issues |-> <<>>,
              data |-> [body EXCEPT !.stock = stock, !.extra = Undefined]]
        ELSE [success |-> FALSE, issues |-> issues]

\* lib/validation/base-response
successResponse(data) == [success |-> Bool(TRUE), data |-> data]
errorResponse(error) == [success |-> Bool(FALSE), error |-> error]

(***************************** API handlers *********************************)
\* the object literal { error: message } of a handler written without the
\* response helpers:
\* it carries no `success` key; the 201 body of the courses handler is the created course, which has neither key
ErrorJson(message) == [success |-> Undefined, error |-> message]

BadJson == [t |-> "badjson"]
EmptyObject ==
    [t |-> "object", userId |-> Undefined, items |-> Undefined,
     shippingAddress |-> Undefined, paymentMethod |-> Undefined,
     extra |-> Undefined]

\* mutant: a body that is not JSON is not caught and becomes a 500
shopPOSTUncaught(body) ==
    IF body.t = "badjson"
    THEN [status |-> 500, json |-> ErrorJson(<<"Internal Server Error">>),
          trace |-> <<"request.json">>]
    ELSE LET parsed == orderSchema(body)
         IN  IF ~parsed.success
             THEN [status |-> 400,
                   json |-> errorResponse([message |-> "Invalid request payload",
                                           issues |-> parsed.issues]),
                   trace |-> <<"request.json", "orderSchema.safeParse">>]
             ELSE [status |-> 201,
                   json |-> successResponse([order |-> parsed.data]),
                   trace |-> <<"request.json", "orderSchema.safeParse">>]

\* mutant: a body that is not JSON is replaced by an order the schema accepts
shopPOSTDefaultOrder(body) ==
    LET item == [t |-> "object", productId |-> Str(<<"p">>),
                 quantity |-> Num(1), extra |-> Undefined]
        parsedBody == IF body.t = "badjson"
                      THEN [EmptyObject EXCEPT
                               !.items = [t |-> "array", a |-> <<item>>]]
                      ELSE body
        parsed == orderSchema(parsedBody)
    IN  IF ~parsed.success
        THEN [status |-> 400,
              json |-> errorResponse([message |-> "Invalid request payload",
                                      issues |-> parsed.issues]),
              trace |-> <<"request.json", "orderSchema.safeParse">>]
        ELSE [status |-> 201,
              json |-> successResponse([order |-> parsed.data]),
              trace |-> <<"request.json", "orderSchema.safeParse">>]

\* POST /api/shop
shopPOST(body) ==
    LET parsedBody == IF body.t = "badjson" THEN EmptyObject ELSE body
        parsed == orderSchema(parsedBody)
    IN  IF ~parsed.success
        THEN [status |-> 400,
              json |-> errorResponse([message |-> "Invalid request payload",
                                      issues |-> parsed.issues]),
              trace |-> <<"request.json", "orderSchema.safeParse">>]
        ELSE [status |-> 201,
              json |-> successResponse([order |-> parsed.data]),
              trace |-> <<"request.json", "orderSchema.safeParse">>]

MaxTitleLen == 255

NoCourse == [title |-> Undefined, isPaid |-> Bool(FALSE), price |-> Null,
             createdBy |-> "none"]

\* body.title.length > 255: only strings have a length here
TitleTooLong(title) == IsString(title) /\ Len(title.s) > MaxTitleLen

\* the data handed to prisma.course.create
CourseData(body, userId) ==
    withCreatedBy(
        [title |-> body.title,
         isPaid |-> IF Falsy(body.isPaid) THEN Bool(FALSE) ELSE body.isPaid,
         price |-> IF Falsy(body.price) THEN Null ELSE body.price,
         createdBy |-> "none"],
        userId)

\* prisma.course.create(data): the client rejects data that does not fit the
\* columns (title is a string), and the database may fail
courseCreateOk(data, dbOk) == dbOk /\ IsString(data.title)

\* POST /api/courses; `guard` is what requireRole(['ADMIN', 'WRITER']) did,
\* dbOk whether prisma.course.create succeeds
coursesPOST(guard, body, dbOk) ==
    IF guard.outcome = "throw"
    THEN IF guard.error.kind = "AuthorizationError"
         THEN [status |-> guard.error.statusCode,
               json |-> ErrorJson(guard.error.message),
               course |-> NoCourse, trace |-> <<"requireRole">>]
         ELSE [status |-> 500, json |-> ErrorJson(<<"Failed to create course">>),
               course |-> NoCourse, trace |-> <<"requireRole">>]
    ELSE IF body.t = "badjson"
    THEN [status |-> 400, json |-> ErrorJson(<<"Invalid JSON in request body">>),
          course |-> NoCourse, trace |-> <<"requireRole", "request.json">>]
    ELSE IF body.t = "null"
    THEN [status |-> 500, json |-> ErrorJson(<<"Failed to create course">>),
          course |-> NoCourse, trace |-> <<"requireRole", "request.json">>]
    ELSE IF Falsy(body.title)
    THEN [status |-> 400, json |-> ErrorJson(<<"Title is required">>),
          course |-> NoCourse, trace |-> <<"requireRole", "request.json">>]
    ELSE IF TitleTooLong(body.title)
    THEN [status |-> 400,
          json |-> ErrorJson(<<"Title must be 255 characters or less">>),
          course |-> NoCourse, trace |-> <<"requireRole", "request.json">>]
    ELSE IF ~Falsy(body.isPaid) /\ Falsy(body.price)
    THEN [status |-> 400,
          json |-> ErrorJson(<<"Price is required for paid courses">>),
          course |-> NoCourse, trace |-> <<"requireRole", "request.json">>]
    ELSE IF ~courseCreateOk(CourseData(body, guard.session.user.id), dbOk)
    THEN [status |-> 500, json |-> ErrorJson(<<"Failed to create course">>),
          course |-> NoCourse,
          trace |-> <<"requireRole", "request.json", "course.create">>]
    ELSE [status |-> 201, json |-> ErrorJson(<<>>),
          course |-> CourseData(body, guard.session.user.id),
          trace |-> <<"requireRole", "request.json", "course.create">>]

CoursesRoute == <<"api", "courses">>
CoursesRoles == <<"ADMIN", "WRITER">>

(***************************** inputs ***************************************)
EmailInputs ==
    {Undefined, Str(Email1), Str(Email3), Str(EmailUnknown),
     Str(<<"a", "@", "a">>), Str(<<>>)}

PasswordInputs ==
    {Undefined, Str(Password1), Str(Rep("x", MinPasswordLen - 1)),
     Str(Rep("z", MinPasswordLen))}

CredentialInputs ==
    {Undefined} \cup
    {[t |-> "object", email |-> e, password |-> p] :
        e \in EmailInputs, p \in PasswordInputs}

PathInputs ==
    {<<"dashboard">>, <<"dashboard", "admin">>, <<"login">>,
     <<"api", "courses">>, <<>>}

GoodItem ==
    [t |-> "object", productId |-> Text("p1"), quantity |-> Num(1),
     extra |-> Undefined]
Arr(a) == [t |-> "array", a |-> a]
Order(items) == [EmptyObject EXCEPT !.items = items]

ShopInputs ==
    {BadJson, Null, Order(Undefined), Order(Arr(<<>>)), Order(Arr(<<GoodItem>>)),
     Order(Arr(<<GoodItem, [GoodItem EXCEPT !.quantity = Num(0)]>>)),
     Order(Arr(<<[GoodItem EXCEPT !.productId = Str(<<>>)]>>)),
     [Order(Arr(<<GoodItem>>)) EXCEPT !.userId = Num(5)],
     [Order(Arr(<<[GoodItem EXCEPT !.extra = Text("k")]>>))
         EXCEPT !.extra = Text("k"), !.userId = Text("u1")]}

OrderInputs ==
    (ShopInputs \ {BadJson}) \cup
    {Order(Arr(<<[GoodItem EXCEPT !.quantity = Float(1, 5)]>>)),
     Order(Arr(<<[GoodItem EXCEPT !.quantity = Num(2)], GoodItem>>)),
     Order(Arr(<<[GoodItem EXCEPT !.quantity = Num(-1)]>>)),
     Order(Arr(<<[GoodItem EXCEPT !.productId = Undefined]>>)),
     Order(Arr(<<Null>>)),
     [Order(Arr(<<GoodItem>>)) EXCEPT !.shippingAddress = Null],
     [Order(Arr(<<GoodItem>>)) EXCEPT !.paymentMethod = Text("card")]}

Product(name, price, stock, status) ==
    [t |-> "object", name |-> name, slug |-> Text("s"),
     description |-> Undefined, price |-> price, sku |-> Undefined,
     stock |-> stock, status |-> status, extra |-> Undefined]

ProductInputs ==
    {Null} \cup
    {Product(n, p, k, st) :
        n \in {Undefined, Str(<<>>), Text("n")},
        p \in {Undefined, Num(-1), Num(0), Num(1), Num(2999), Float(1, 5),
               Text("1")},
        k \in {Undefined, Null, Num(-1), Num(0), Num(5), Float(0, 5)},
        st \in {Undefined, Str(<<"ACTIVE">>), Str(<<"BOGUS">>)}}

CourseBody(title, isPaid, price) ==
    [t |-> "object", title |-> title, isPaid |-> isPaid, price |-> price]

CourseInputs ==
    {BadJson, Null,
     CourseBody(Undefined, Undefined, Undefined),
     CourseBody(Str(<<>>), Undefined, Undefined),
     CourseBody(Text("T"), Undefined, Undefined),
     CourseBody(Text("T"), Bool(TRUE), Undefined),
     CourseBody(Text("T"), Bool(TRUE), Num(100)),
     CourseBody(Str(Rep("t", MaxTitleLen)), Undefined, Undefined),
     CourseBody(Str(Rep("t", MaxTitleLen + 1)), Undefined, Undefined),
     CourseBody(Num(5), Undefined, Undefined)}

RequiredInputs ==
    {<<>>, <<"ADMIN">>, CoursesRoles}

DirectEntries ==
    {[userId |-> "u1", userRole |-> Text("LEARNER"),
      route |-> <<"dashboard", "admin">>, reason |-> <<"denied">>,
      action |-> a, extra |-> x] :
        a \in {Undefined}, x \in {Text("X")}}

MaxRows == 2

AuditFns == {"logAccessDenied", "logAccessAllowed"}

AuditEntries ==
    {[userId |-> "u1", userRole |-> Text("LEARNER"),
      route |-> <<"dashboard", "admin">>, reason |-> <<"denied">>,
      action |-> Undefined, extra |-> Undefined],
     [userId |-> "u2", userRole |-> Undefined,
      route |-> <<"api", "courses">>, reason |-> <<"denied">>,
      action |-> Undefined, extra |-> Undefined]}

ReadOptions ==
    {[days |-> d, action |-> Undefined, limit |-> l] :
        d \in {Undefined, Num(0)}, l \in {Undefined, Num(1)}}

\* entries for every write operation: with and without an action of the
\* caller's own
KindEntries ==
    {[userId |-> "u1", userRole |-> Text("LEARNER"),
      route |-> <<"dashboard", "admin">>, reason |-> <<"denied">>,
      action |-> a, extra |-> Text("X")] :
        a \in {Undefined, Text("CUSTOM")}}

KindOptions ==
    {[days |-> Undefined, action |-> a, limit |-> Undefined] :
        a \in {Undefined, Text("AUTH_FAILURE"), Text("CUSTOM")}}

(***************************** state ****************************************)
\* ---------------------------------------------------------------------
\* graceful shutdown (setupPrismaShutdown)

\* signals delivered to one process before it has exited
MaxSignals == 2

Signals == {"SIGTERM", "SIGINT", "uncaughtException", "unhandledRejection"}

\* values thrown or rejected with: an Error, or something that is not one
Errors == {[t |-> "Error", message |-> "boom"], Text("reason")}

\* what one call of options.onShutdown() does
HookOutcomes == {"throws", "returns", "promise"}

NoExit == [t |-> "running"]
Exit(code) == [t |-> "exit", code |-> code]

\* a process on which setupPrismaShutdown has not run
NotInstalled ==
    [handlers |-> FALSE, onShutdown |-> FALSE, shutdowns |-> <<>>,
     exit |-> NoExit, log |-> <<>>]

\* err instanceof Error ? err.message : 'Unknown error'
ErrorMessage(err) == IF err.t = "Error" THEN err.message ELSE "Unknown error"

\* reason instanceof Error ? reason.message : String(reason)
RejectionMessage(reason) ==
    IF reason.t = "Error" THEN reason.message ELSE reason.s[1]

\* err.message of the value handed to the uncaughtException listener
ExceptionMessage(err) == IF err.t = "Error" THEN err.message ELSE "undefined"

LogLine(p, level, text, detail) ==
    [p EXCEPT !.log = Append(@, <<level, text, detail>>)]

\* the catch block of shutdown
shutdownCatch(p, err) ==
    [LogLine(p, "error", "Error during shutdown", ErrorMessage(err))
        EXCEPT !.exit = Exit(1)]

\* shutdown(signal), up to its first await that leaves the event loop free:
\* the hook is called if there is one; a hook that returns no promise is
\* followed by the disconnect call before any other listener can run
shutdown(p, signal, outcome, err) ==
    LET logged == LogLine(p, "log", "Received", signal)
        started(hook, disc) ==
            [logged EXCEPT !.shutdowns =
                Append(@, [signal |-> signal, hook |-> hook,
                           disconnect |-> disc])]
    IN  IF ~p.onShutdown THEN started("none", "pending")
        ELSE CASE outcome = "throws" ->
                    shutdownCatch(started("threw", "none"), err)
               [] outcome = "returns" -> started("resolved", "pending")
               [] OTHER -> started("pending", "none")

\* the four listeners registered on process
listener(p, signal, thrown, outcome, err) ==
    CASE signal = "uncaughtException" ->
            shutdown(LogLine(LogLine(p, "error", "Uncaught Exception",
                                     ExceptionMessage(thrown)),
                             "error", "stack", ""),
                     signal, outcome, err)
      [] signal = "unhandledRejection" ->
            shutdown(LogLine(p, "error", "Unhandled Rejection",
                             RejectionMessage(thrown)),
                     signal, outcome, err)
      [] OTHER -> shutdown(p, signal, outcome, err)

\* shutdown after `await options.onShutdown()` settles
shutdownAfterHook(p, i, ok, err) ==
    IF ok
    THEN [p EXCEPT !.shutdowns[i].hook = "resolved",
                   !.shutdowns[i].disconnect = "pending"]
    ELSE shutdownCatch([p EXCEPT !.shutdowns[i].hook = "rejected"], err)

\* shutdown after `await prisma.$disconnect()` settles
shutdownAfterDisconnect(p, i, ok, err) ==
    IF ok
    THEN [LogLine([p EXCEPT !.shutdowns[i].disconnect = "resolved"],
                  "log", "Prisma disconnected successfully", "")
            EXCEPT !.exit = Exit(0)]
    ELSE shutdownCatch([p EXCEPT !.shutdowns[i].disconnect = "rejected"],
                       err)

setupPrismaShutdown(p, hasHook) ==
    [p EXCEPT !.handlers = TRUE, !.onShutdown = hasHook]

Idle == [op |-> "none"]

Init ==
    /\ userRole = [id \in UserIds |->
                     CASE id = "u1" -> "CUSTOMER"
                       [] id = "u2" -> "ADMIN"
                       [] OTHER -> "LEARNER"]
    /\ cookie = NoCookie
    /\ now = 0
    /\ calls = <<>>
    /\ activityLog = <<>>
    /\ deleted = {}
    /\ courses = <<>>
    /\ process = NotInstalled
    /\ last = Idle

\* POST to the NextAuth credentials callback: authorize, then session issue
Login(credentials) ==
    LET r == authorize(credentials, userRole)
    IN  /\ last' = [op |-> "login", credentials |-> credentials, result |-> r]
        /\ cookie' = IF r.ok THEN IssueToken(r.user) ELSE cookie
        /\ UNCHANGED <<userRole, now, calls, activityLog, deleted, courses, process>>

\* administrator changes a user's role (a write path outside the guard)
ChangeRole(id, role) ==
    /\ userRole[id] # role
    /\ userRole' = [userRole EXCEPT ![id] = role]
    /\ last' = Idle
    /\ UNCHANGED <<cookie, now, calls, activityLog, deleted, courses, process>>

\* the client drops its cookie, or presents one that does not verify
PresentCookie(c) ==
    /\ cookie # c
    /\ cookie' = c
    /\ last' = Idle
    /\ UNCHANGED <<userRole, now, calls, activityLog, deleted, courses, process>>

\* a page request arrives at the edge
Edge(pathname) ==
    /\ last' = [op |-> "edge", cookie |-> cookie, pathname |-> pathname,
                matched |-> Matches(pathname),
                result |-> EdgeHandle(cookie, pathname)]
    /\ calls' = IF Matches(pathname)
                THEN LET audit == middlewareAudit(cookie, pathname)
                     IN  IF audit.fn = "none" THEN calls
                         ELSE Append(calls, StartCall(audit.fn, audit.entry,
                                                      calls, now))
                ELSE calls
    /\ UNCHANGED <<userRole, cookie, now, activityLog, deleted, courses, process>>

\* a page request arrives at the edge and the token validation does not
\* complete
EdgeTokenFailure(pathname, failure) ==
    /\ last' = [op |-> "edge, getToken fails", cookie |-> cookie,
                pathname |-> pathname, matched |-> Matches(pathname),
                failure |-> failure,
                result |-> EdgeHandleFailure(failure, pathname)]
    /\ UNCHANGED <<userRole, cookie, now, calls, activityLog, deleted, courses, process>>

Tick ==
    /\ now < MaxTime
    /\ now' = now + 1
    /\ UNCHANGED <<userRole, cookie, calls, activityLog, deleted, courses, process, last>>

\* a server component or route handler calls the guard
GuardCall(required, route, logOnSuccess) ==
    LET g == requireRole(required, cookie, userRole, route, logOnSuccess)
    IN  /\ g.audit.fn # "none" => Len(calls) < MaxCalls
        /\ calls' = IssueAudit(g.audit, calls, now)
        /\ last' = [op |-> "guard", cookie |-> cookie, required |-> required,
                    callsBefore |-> Len(calls),
                    stored |-> IF cookie.t = "jwt" THEN userRole[cookie.sub]
                               ELSE "none",
                    result |-> g]
        /\ UNCHANGED <<userRole, cookie, now, activityLog, deleted, courses, process>>

PostCourses(body, dbOk) ==
    LET g == requireRole(CoursesRoles, cookie, userRole, CoursesRoute, FALSE)
        r == coursesPOST(g, body, dbOk)
    IN  /\ g.audit.fn # "none" => Len(calls) < MaxCalls
        /\ r.status = 201 => Len(courses) < MaxCourses
        /\ calls' = IssueAudit(g.audit, calls, now)
        /\ courses' = IF r.status = 201 THEN Append(courses, r.course) ELSE courses
        /\ last' = [op |-> "POST /api/courses", cookie |-> cookie,
                    stored |-> IF cookie.t = "jwt" THEN userRole[cookie.sub]
                               ELSE "none",
                    callsBefore |-> Len(calls), coursesBefore |-> Len(courses),
                    guard |-> g, result |-> r]
        /\ UNCHANGED <<userRole, cookie, now, activityLog, deleted, process>>

PostShop(body) ==
    /\ last' = [op |-> "POST /api/shop", cookie |-> cookie, body |-> body,
                result |-> shopPOST(body)]
    /\ UNCHANGED <<userRole, cookie, now, calls, activityLog, deleted, courses, process>>

\* a handler hands a request body to a schema of lib/validation
ParseOrder(body) ==
    /\ last' = [op |-> "orderSchema.safeParse", body |-> body,
                result |-> orderSchema(body)]
    /\ UNCHANGED <<userRole, cookie, now, calls, activityLog, deleted, courses, process>>

ParseProduct(body) ==
    /\ last' = [op |-> "productSchema.safeParse", body |-> body,
                result |-> productSchema(body)]
    /\ UNCHANGED <<userRole, cookie, now, calls, activityLog, deleted, courses, process>>

\* a write operation of the sink is called directly, the table holding at
\* most `bound` calls
SinkCallWithin(fn, entry, bound) ==
    /\ Len(calls) < bound
    /\ calls' = Append(calls, StartCall(fn, entry, calls, now))
    /\ last' = Idle
    /\ UNCHANGED <<userRole, cookie, now, activityLog, deleted, courses, process>>

SinkCall(fn, entry) == SinkCallWithin(fn, entry, MaxCalls)

\* a retention job marks a row of the audit trail as deleted
SoftDelete(id) ==
    /\ \E k \in 1..Len(activityLog) : activityLog[k].id = id
    /\ id \notin deleted
    /\ deleted' = deleted \cup {id}
    /\ last' = Idle
    /\ UNCHANGED <<userRole, cookie, now, calls, activityLog, courses, process>>

\* the read operations of the sink; scan is the order in which storage goes
\* through the table, findOk whether prisma.activityLog.findMany succeeds
ReadByUser(userId, options, scan, findOk) ==
    /\ last' = [op |-> "getAccessDenialLogs", list |-> TRUE, findOk |-> findOk,
                filter |-> options.action,
                result |-> getAccessDenialLogs(userId, options, activityLog,
                                               deleted, now, scan, findOk)]
    /\ UNCHANGED <<userRole, cookie, now, calls, activityLog, deleted, courses, process>>

ReadByRole(role, options, scan, findOk) ==
    /\ last' = [op |-> "getAccessDenialsByRole", list |-> TRUE, findOk |-> findOk,
                filter |-> options.action,
                result |-> getAccessDenialsByRole(role, options, activityLog,
                                                  deleted, now, scan, findOk)]
    /\ UNCHANGED <<userRole, cookie, now, calls, activityLog, deleted, courses, process>>

ReadByRoute(route, options, scan, findOk) ==
    /\ last' = [op |-> "getAccessDenialsByRoute", list |-> TRUE, findOk |-> findOk,
                filter |-> options.action,
                result |-> getAccessDenialsByRoute(route, options, activityLog,
                                                   deleted, now, scan, findOk)]
    /\ UNCHANGED <<userRole, cookie, now, calls, activityLog, deleted, courses, process>>

ReadSummary(options, scan, findOk) ==
    /\ last' = [op |-> "getAccessDenialSummary", list |-> FALSE, findOk |-> findOk,
                filter |-> options.action,
                result |-> getAccessDenialSummary(options, activityLog,
                                                  deleted, now, scan, findOk)]
    /\ UNCHANGED <<userRole, cookie, now, calls, activityLog, deleted, courses, process>>

\* storage settles the create of pending call i, successfully or not
SettleCreate(i, createOk) ==
    /\ calls[i].state = "pending"
    /\ calls' = [calls EXCEPT ![i].state = SinkSettles(createOk),
                              ![i].created = createOk,
                              ![i].attempts =
                                  IF SinkSettles(createOk) = "pending"
                                  THEN @ + 1 ELSE @]
    /\ activityLog' = IF createOk THEN Append(activityLog, calls[i].row)
                      ELSE activityLog
    /\ UNCHANGED <<userRole, cookie, now, deleted, courses, process, last>>

\* setupPrismaShutdown(prisma, options) runs once at start-up
Setup(hasHook) ==
    /\ ~process.handlers
    /\ process' = setupPrismaShutdown(process, hasHook)
    /\ UNCHANGED <<userRole, cookie, now, calls, activityLog, deleted,
                   courses, last>>

\* a signal, an uncaught exception or an unhandled rejection reaches the
\* running process and its listener runs
Deliver(signal, thrown, outcome, err) ==
    /\ process.handlers
    /\ process.exit = NoExit
    /\ Len(process.shutdowns) < MaxSignals
    /\ process.onShutdown \/ outcome = "returns"
    /\ outcome = "throws" \/ err = Text("reason")
    /\ signal \in {"uncaughtException", "unhandledRejection"}
           \/ thrown = Text("reason")
    /\ process' = listener(process, signal, thrown, outcome, err)
    /\ UNCHANGED <<userRole, cookie, now, calls, activityLog, deleted,
                   courses, last>>

\* the promise returned by the hook of shutdown i settles
SettleHook(i, ok, err) ==
    /\ process.exit = NoExit
    /\ i \in DOMAIN process.shutdowns
    /\ process.shutdowns[i].hook = "pending"
    /\ ok => err = Text("reason")
    /\ process' = shutdownAfterHook(process, i, ok, err)
    /\ UNCHANGED <<userRole, cookie, now, calls, activityLog, deleted,
                   courses, last>>

\* the promise returned by prisma.$disconnect() of shutdown i settles
SettleDisconnect(i, ok, err) ==
    /\ process.exit = NoExit
    /\ i \in DOMAIN process.shutdowns
    /\ process.shutdowns[i].disconnect = "pending"
    /\ ok => err = Text("reason")
    /\ process' = shutdownAfterDisconnect(process, i, ok, err)
    /\ UNCHANGED <<userRole, cookie, now, calls, activityLog, deleted,
                   courses, last>>

GoodCredentials ==
    [t |-> "object", email |-> Str(Email1), password |-> Str(Password1)]

\* course creation behind a session
Next ==
    \/ Login(GoodCredentials)
    \/ \E id \in RoleChangeUsers, r \in Roles : ChangeRole(id, r)
    \/ \E c \in {NoCookie, BadCookie} : PresentCookie(c)
    \/ \E b \in CourseInputs, ok \in BOOLEAN : PostCourses(b, ok)
    \/ \E i \in 1..Len(calls), ok \in BOOLEAN : SettleCreate(i, ok)

Spec == Init /\ [][Next]_vars

\* guard calls with any required-roles list, and the sink's write operations
NextGuard ==
    \/ Login(GoodCredentials)
    \/ \E id \in RoleChangeUsers, r \in Roles : ChangeRole(id, r)
    \/ \E c \in {NoCookie, BadCookie} : PresentCookie(c)
    \/ \E q \in RequiredInputs, f \in BOOLEAN : GuardCall(q, CoursesRoute, f)
    \/ \E fn \in SinkFns, e \in DirectEntries : SinkCall(fn, e)
    \/ \E i \in 1..Len(calls), ok \in BOOLEAN : SettleCreate(i, ok)

SpecGuard == Init /\ [][NextGuard]_vars

\* login and edge traffic
NextAuth ==
    \/ \E c \in CredentialInputs : Login(c)
    \/ \E id \in RoleChangeUsers, r \in Roles : ChangeRole(id, r)
    \/ \E c \in {NoCookie, BadCookie} : PresentCookie(c)
    \/ \E p \in PathInputs : Edge(p)
    \/ \E p \in PathInputs, f \in TokenFailures : EdgeTokenFailure(p, f)

SpecAuth == Init /\ [][NextAuth]_vars

\* order creation
NextShop ==
    \/ Login(GoodCredentials)
    \/ \E id \in RoleChangeUsers, r \in Roles : ChangeRole(id, r)
    \/ \E c \in {NoCookie, BadCookie} : PresentCookie(c)
    \/ \E b \in ShopInputs : PostShop(b)

SpecShop == Init /\ [][NextShop]_vars

\* the audit trail: writes, retention, the clock, and the reads
NextAudit ==
    \/ \E fn \in AuditFns, e \in AuditEntries : SinkCallWithin(fn, e, MaxRows)
    \/ \E i \in 1..Len(calls), ok \in BOOLEAN : SettleCreate(i, ok)
    \/ Tick
    \/ \E id \in 1..MaxRows : SoftDelete(id)
    \/ \E o \in ReadOptions, p \in ScanOrders(Len(activityLog)), ok \in BOOLEAN :
          ReadByUser("u1", o, p, ok)
    \/ \E o \in ReadOptions, p \in ScanOrders(Len(activityLog)), ok \in BOOLEAN :
          ReadByRole(<<"LEARNER">>, o, p, ok)
    \/ \E o \in ReadOptions, p \in ScanOrders(Len(activityLog)), ok \in BOOLEAN :
          ReadByRoute(<<"dashboard", "admin">>, o, p, ok)
    \/ \E o \in ReadOptions, p \in ScanOrders(Len(activityLog)), ok \in BOOLEAN :
          ReadSummary(o, p, ok)

SpecAudit == Init /\ [][NextAudit]_vars

\* the five write operations and the reads over the kinds they record
NextKinds ==
    \/ \E fn \in SinkFns, e \in KindEntries : SinkCallWithin(fn, e, MaxRows)
    \/ \E i \in 1..Len(calls), ok \in BOOLEAN : SettleCreate(i, ok)
    \/ \E o \in KindOptions, p \in ScanOrders(Len(activityLog)), ok \in BOOLEAN :
          ReadByUser("u1", o, p, ok)
    \/ \E o \in KindOptions, p \in ScanOrders(Len(activityLog)), ok \in BOOLEAN :
          ReadByRole(<<"LEARNER">>, o, p, ok)
    \/ \E o \in KindOptions, p \in ScanOrders(Len(activityLog)), ok \in BOOLEAN :
          ReadByRoute(<<"dashboard", "admin">>, o, p, ok)
    \/ \E o \in KindOptions, p \in ScanOrders(Len(activityLog)), ok \in BOOLEAN :
          ReadSummary(o, p, ok)

SpecKinds == Init /\ [][NextKinds]_vars

\* the schemas of lib/validation applied to request bodies
NextSchema ==
    \/ \E b \in OrderInputs : ParseOrder(b)
    \/ \E b \in ProductInputs : ParseProduct(b)

SpecSchema == Init /\ [][NextSchema]_vars

\* a process that shuts down
NextShutdown ==
    \/ \E hasHook \in BOOLEAN : Setup(hasHook)
    \/ \E signal \in Signals, thrown \in Errors, outcome \in HookOutcomes,
          err \in Errors : Deliver(signal, thrown, outcome, err)
    \/ \E i \in 1..MaxSignals, ok \in BOOLEAN, err \in Errors :
          SettleHook(i, ok, err)
    \/ \E i \in 1..MaxSignals, ok \in BOOLEAN, err \in Errors :
          SettleDisconnect(i, ok, err)

\* the event loop runs the continuation of every promise that settles, and
\* the promises of the hook and of $disconnect are taken to settle
SpecShutdown ==
    /\ Init /\ [][NextShutdown]_vars
    /\ WF_vars(\E i \in 1..MaxSignals, ok \in BOOLEAN, err \in Errors :
                  SettleHook(i, ok, err))
    /\ WF_vars(\E i \in 1..MaxSignals, ok \in BOOLEAN, err \in Errors :
                  SettleDisconnect(i, ok, err))

(***************************** properties ***********************************)
IsGuardOp == last.op = "guard"
IsCoursesOp == last.op = "POST /api/courses"
IsLoginOp == last.op = "login"
IsEdgeOp == last.op = "edge"

\* C1: the guard allows exactly when the role stored for the token's subject
\* at the time of the call is one of the required roles, whatever role claim
\* the token carries.
C1_GuardJudgesByStoredRole ==
    (IsGuardOp /\ last.cookie.t = "jwt" /\ Len(last.required) > 0) =>
        /\ last.result.outcome = "allow" <=> last.stored \in SeqToSet(last.required)
        /\ last.result.outcome = "allow" => last.result.session.user.role = last.stored

\* a token issued to a LEARNER, whose stored role is ADMIN by the time of an
\* ADMIN-only guard call, is allowed
C1_Witness ==
    /\ IsGuardOp /\ last.cookie.t = "jwt"
    /\ last.cookie.role = "LEARNER" /\ last.stored = "ADMIN"
    /\ last.required = <<"ADMIN">>
    /\ last.result.outcome = "allow"

\* C2: a request to a gated path without a valid token is redirected to
\* /login with callbackUrl equal to the requested pathname, and never passed on.
C2_UnauthenticatedRedirects ==
    (IsEdgeOp /\ last.pathname # <<>> /\ Head(last.pathname) = "dashboard"
       /\ last.cookie.t \in {"none", "invalid"}) =>
        /\ last.result.type = "redirect"
        /\ last.result.url.pathname = <<"login">>
        /\ searchParamsGet(last.result.url.search, "callbackUrl") = last.pathname

C2_Witness ==
    /\ IsEdgeOp /\ last.pathname = <<"dashboard", "admin">>
    /\ last.cookie = BadCookie
    /\ last.result.type = "redirect"

\* C3: the outcome at the edge is the same whatever role claim the token
\* carries: it depends on the token's presence and validity and on the path only.
C3_EdgeIgnoresRoleClaim ==
    (IsEdgeOp /\ last.cookie.t = "jwt") =>
        \A r \in Roles :
            EdgeHandle([last.cookie EXCEPT !.role = r], last.pathname) = last.result

\* a token claiming CUSTOMER passes the edge on the admin dashboard
C3_Witness ==
    /\ IsEdgeOp /\ last.cookie.t = "jwt" /\ last.cookie.role = "CUSTOMER"
    /\ last.pathname = <<"dashboard", "admin">>
    /\ last.result.type = "next"

\* whether the guard call recorded in `last` has to allow, from the stored role
ShouldAllow ==
    /\ last.cookie.t = "jwt"
    /\ Len(last.required) > 0
    /\ last.stored \in SeqToSet(last.required)

\* C4: no write operation of the sink ever rejects: a call whose create failed
\* resolves, having appended nothing, and the guard decision that issued the
\* write is the one computed from the stored role, however the write settles.
C4_SinkNeverThrows ==
    /\ \A i \in 1..Len(calls) :
          /\ calls[i].state \in {"pending", "resolved"}
          /\ (calls[i].state = "resolved" /\ ~calls[i].created) =>
                \A k \in 1..Len(activityLog) : activityLog[k].id # calls[i].row.id
    /\ IsGuardOp => (last.result.outcome = "allow" <=> ShouldAllow)

\* a denial whose audit write failed: the call resolved, the denial stands
C4_Witness ==
    /\ IsGuardOp /\ last.result.outcome = "throw"
    /\ last.result.audit.fn = "logAccessDenied"
    /\ Len(calls) > last.callsBefore
    /\ calls[last.callsBefore + 1].state = "resolved"
    /\ ~calls[last.callsBefore + 1].created

\* C5: a guard call with an empty required-roles list fails with a
\* configuration error for every caller and never allows.
C5_EmptyRequiredIsConfigError ==
    (IsGuardOp /\ last.required = <<>>) =>
        /\ last.result.outcome = "throw"
        /\ last.result.error.kind = "ConfigurationError"

C5_Witness ==
    /\ IsGuardOp /\ last.required = <<>>
    /\ last.cookie.t = "jwt" /\ last.stored = "ADMIN"
    /\ last.result.outcome = "throw"

\* the login payload is malformed: a field is missing, the email is not an
\* email address, or the password has fewer than 8 characters
Malformed(c) ==
    \/ c.t # "object"
    \/ ~IsString(c.email) \/ ~IsString(c.password)
    \/ ~IsEmail(c.email.s)
    \/ Len(c.password.s) < 8

Count(q, x) == Cardinality({i \in 1..Len(q) : q[i] = x})

\* C6: a malformed login payload fails with the validation error and no
\* storage lookup; whenever a lookup happens, the schema check came first
\* and had succeeded.
C6_ValidationBeforeLookup ==
    IsLoginOp =>
        /\ Malformed(last.credentials) =>
              /\ ~last.result.ok
              /\ Head(last.result.error) = "Invalid credentials: "
              /\ Len(last.result.error) > 1
              /\ Count(last.result.trace, "user.findUnique") = 0
        /\ \A k \in 1..Len(last.result.trace) :
              last.result.trace[k] = "user.findUnique" =>
                  /\ k = 2 /\ last.result.trace[1] = "loginSchema.safeParse"
                  /\ ~Malformed(last.credentials)

\* a registered email with a password one character short never reaches storage
C6_Witness ==
    /\ IsLoginOp
    /\ last.credentials.t = "object"
    /\ last.credentials.email = Str(Email1)
    /\ last.credentials.password = Str(Rep("x", 7))
    /\ last.result.trace = <<"loginSchema.safeParse">>

EmailKnown(c) == \E id \in UserIds : UserRow(id).email = c.email.s
NullDigest(c) ==
    \E id \in UserIds : UserRow(id).email = c.email.s /\ UserRow(id).password = Null
WrongPassword(c) ==
    \E id \in UserIds :
        /\ UserRow(id).email = c.email.s
        /\ IsString(UserRow(id).password)
        /\ UserRow(id).password.s # hashPassword(c.password.s)

WellFormed == {c \in CredentialInputs : ~Malformed(c)}

\* C7: a login with an unknown email and a login with a known email and a
\* wrong password fail with the same error.
C7_UnknownEmailLikeWrongPassword ==
    (IsLoginOp /\ last.credentials \in WellFormed /\ ~EmailKnown(last.credentials)) =>
        \A c \in WellFormed :
            WrongPassword(c) => authorize(c, userRole).error = last.result.error

\* C8: a login for an email with no identity and a login for an identity with
\* a null password digest fail with the identical error, and neither reaches
\* the password verification.
C8_UnknownEmailLikeNoPassword ==
    (IsLoginOp /\ last.credentials \in WellFormed
       /\ (~EmailKnown(last.credentials) \/ NullDigest(last.credentials))) =>
        /\ ~last.result.ok
        /\ Count(last.result.trace, "verifyPassword") = 0
        /\ \A c \in WellFormed :
              (~EmailKnown(c) \/ NullDigest(c)) =>
                  authorize(c, userRole).error = last.result.error

C8_Witness ==
    /\ IsLoginOp /\ last.credentials \in WellFormed
    /\ NullDigest(last.credentials)
    /\ ~last.result.ok
    /\ \E c \in WellFormed : ~EmailKnown(c)

\* the reason text contains the required roles joined by ", "
Cites(reason, required) ==
    LET joined == JoinWith(required, ", ")
    IN  \E k \in 1..(Len(reason) - Len(joined) + 1) :
            SubSeq(reason, k, k + Len(joined) - 1) = joined

\* rows of the audit trail written by the sink call that `last` issued
RequestRows ==
    {k \in 1..Len(activityLog) : activityLog[k].id = last.callsBefore + 1}

CustomerPosted ==
    IsCoursesOp /\ last.cookie.t = "jwt" /\ last.stored = "CUSTOMER"

\* C9 as stated: a CUSTOMER's course creation gets 403, creates no course, and
\* once the audit write has settled exactly one DENIED_ACCESS entry citing
\* ADMIN, WRITER has been appended.
C9_ExactlyOneEntry ==
    (CustomerPosted /\ calls[last.callsBefore + 1].state # "pending") =>
        /\ last.result.status = 403
        /\ Len(courses) = last.coursesBefore
        /\ Cardinality(RequestRows) = 1
        /\ \A k \in RequestRows :
              /\ activityLog[k].action = <<"DENIED_ACCESS">>
              /\ Cites(activityLog[k].reason, CoursesRoles)

\* C9 amended: 403, no course, and at most one entry: exactly one when the
\* storage create succeeded, none when it failed; an entry that is appended
\* is of kind DENIED_ACCESS and cites ADMIN, WRITER.
C9_AtMostOneEntry ==
    CustomerPosted =>
        LET call == calls[last.callsBefore + 1]
        IN  /\ last.result.status = 403
            /\ last.result.course = NoCourse
            /\ Len(courses) = last.coursesBefore
            /\ call.row.action = <<"DENIED_ACCESS">>
            /\ Cites(call.row.reason, CoursesRoles)
            /\ Cardinality(RequestRows) =
                  (IF call.state = "resolved" /\ call.created THEN 1 ELSE 0)
            /\ \A k \in RequestRows : activityLog[k] = call.row

C9_Witness ==
    /\ CustomerPosted
    /\ calls[last.callsBefore + 1].created
    /\ Cardinality(RequestRows) = 1
    /\ last.result.status = 403

PersistOps == {"course.create"}
SchemaOps == {"loginSchema.safeParse", "orderSchema.safeParse"}

\* C10: no handler reaches a persistence operation before a lib/validation
\* schema has checked its input.
C10_SchemaBeforeWrite ==
    (IsCoursesOp \/ IsLoginOp) =>
        \A k \in 1..Len(last.result.trace) :
            last.result.trace[k] \in PersistOps =>
                \E j \in 1..(k - 1) : last.result.trace[j] \in SchemaOps

IsShopOp == last.op = "POST /api/shop"

HasOp(trace, op) == \E k \in 1..Len(trace) : trace[k] = op

\* C11: a state-changing POST endpoint answers 201 only to a caller with a
\* session for whom the guard was called and succeeded in that request.
C11_SuccessOnlyAfterGuard ==
    ((IsShopOp \/ IsCoursesOp) /\ last.result.status = 201) =>
        /\ last.cookie.t = "jwt"
        /\ HasOp(last.result.trace, "requireRole")

\* what request.json().catch(() => ({})) hands to the schema
ShopParsedBody == IF last.body.t = "badjson" THEN EmptyObject ELSE last.body

\* C14: POST /api/shop answers 400 with {success: false, error: {message,
\* issues}} exactly when the body fails the order schema, and 201 with
\* {success: true, data} carrying the parsed order exactly when it passes.
C14_ShopEnvelopes ==
    IsShopOp =>
        LET r == last.result
            parsed == orderSchema(ShopParsedBody)
        IN  IF parsed.success
            THEN /\ r.status = 201
                 /\ DOMAIN r.json = {"success", "data"}
                 /\ r.json.success = Bool(TRUE)
                 /\ r.json.data = [order |-> parsed.data]
            ELSE /\ r.status = 400
                 /\ DOMAIN r.json = {"success", "error"}
                 /\ r.json.success = Bool(FALSE)
                 /\ DOMAIN r.json.error = {"message", "issues"}
                 /\ r.json.error.issues = parsed.issues
                 /\ Len(parsed.issues) >= 1

C14_Witness ==
    /\ IsShopOp
    /\ last.body = BadJson
    /\ last.result.status = 400
    /\ \E b \in ShopInputs : shopPOST(b).status = 201

\* C15: an authorization failure of the course-creation endpoint is answered
\* with 401 or 403 and a body {success: false, error}.
C15_DenialEnvelope ==
    (IsCoursesOp /\ last.guard.outcome = "throw"
                 /\ last.guard.error.kind = "AuthorizationError") =>
        /\ last.result.status \in {401, 403}
        /\ last.result.json.success = Bool(FALSE)

IsOrderParse == last.op = "orderSchema.safeParse"
IsProductParse == last.op = "productSchema.safeParse"

IsObject(v) == v.t = "object"
IsArray(v) == v.t = "array"
IsInteger(v) == v.t = "number" /\ v.frac = 0

GoodOrderItem(item) ==
    /\ IsObject(item)
    /\ IsString(item.productId) /\ Len(item.productId.s) >= 1
    /\ IsInteger(item.quantity) /\ item.quantity.n >= 1

\* a non-empty items list of good items
ItemsGood(body) ==
    /\ IsObject(body) /\ IsArray(body.items)
    /\ Len(body.items.a) >= 1
    /\ \A i \in 1..Len(body.items.a) : GoodOrderItem(body.items.a[i])

\* some item has a quantity below 1 or an empty productId
SomeItemBad(body) ==
    /\ IsObject(body) /\ IsArray(body.items)
    /\ \E i \in 1..Len(body.items.a) :
          LET item == body.items.a[i]
          IN  /\ IsObject(item)
              /\ \/ item.quantity.t = "number" /\ item.quantity.n < 1
                 \/ IsString(item.productId) /\ Len(item.productId.s) = 0

HasIssue(result, path, message) ==
    \E k \in 1..Len(result.issues) :
        result.issues[k] = [path |-> path, message |-> message]

OptionalOk(v) == v.t = "undefined" \/ IsString(v)

OptionalFieldsOk(body) ==
    /\ OptionalOk(body.userId)
    /\ OptionalOk(body.shippingAddress)
    /\ OptionalOk(body.paymentMethod)

OrderRejections ==
    LET b == last.body
        r == last.result
    IN  /\ (IsObject(b) /\ IsArray(b.items) /\ Len(b.items.a) = 0) =>
               /\ ~r.success
               /\ HasIssue(r, <<"items">>, "At least one order item is required")
        /\ SomeItemBad(b) => ~r.success

\* C12 as stated: the order schema accepts every submission whose items are
\* a non-empty list of items with non-empty productId and integer quantity
\* >= 1, rejects items = [] citing "At least one order item is required",
\* and rejects any item with quantity < 1 or an empty productId.
C12_AcceptsOnItemsAlone ==
    IsOrderParse =>
        /\ ItemsGood(last.body) => last.result.success
        /\ OrderRejections

\* C12 amended: as above, but acceptance also needs userId, shippingAddress
\* and paymentMethod each to be absent or a string.
C12_AcceptsWellTypedOrders ==
    IsOrderParse =>
        /\ (ItemsGood(last.body) /\ OptionalFieldsOk(last.body))
              => last.result.success
        /\ (ItemsGood(last.body) /\ ~OptionalFieldsOk(last.body))
              => ~last.result.success
        /\ OrderRejections

C12_Witness ==
    /\ IsOrderParse
    /\ ItemsGood(last.body)
    /\ Len(last.body.items.a) = 2
    /\ last.result.success
    /\ \E b \in OrderInputs : SomeItemBad(b) /\ ~orderSchema(b).success
    /\ \E b \in OrderInputs :
          IsObject(b) /\ IsArray(b.items) /\ Len(b.items.a) = 0

\* C13: the product schema hands back a non-negative integer price unchanged
\* and rejects a negative price; an absent stock becomes 0 and a negative
\* stock is rejected.
C13_ProductPriceAndStock ==
    (IsProductParse /\ IsObject(last.body)) =>
        LET b == last.body
            r == last.result
        IN  /\ r.success => (IsInteger(b.price) /\ b.price.n >= 0
                              /\ r.data.price = b.price)
            /\ (IsInteger(b.price) /\ b.price.n >= 0) =>
                   \A k \in 1..Len(r.issues) : r.issues[k].path # <<"price">>
            /\ (b.price.t = "number" /\ b.price.n < 0) =>
                   /\ ~r.success
                   /\ \E k \in 1..Len(r.issues) : r.issues[k].path = <<"price">>
            /\ b.stock.t = "undefined" =>
                   \A k \in 1..Len(r.issues) : r.issues[k].path # <<"stock">>
            /\ (r.success /\ b.stock.t = "undefined") => r.data.stock = Num(0)
            /\ (r.success /\ b.stock.t # "undefined") => r.data.stock = b.stock
            /\ (b.stock.t = "number" /\ b.stock.n < 0) => ~r.success

C13_Witness ==
    /\ IsProductParse /\ IsObject(last.body)
    /\ last.body.price = Num(2999)
    /\ last.body.stock = Undefined
    /\ last.result.success
    /\ last.result.data.price = Num(2999)
    /\ last.result.data.stock = Num(0)

IsAuditRead ==
    last.op \in {"getAccessDenialLogs", "getAccessDenialsByRole",
                 "getAccessDenialsByRoute", "getAccessDenialSummary"}

NewestFirst(rows) ==
    \A j, k \in 1..Len(rows) : j < k => rows[j].timestamp >= rows[k].timestamp

\* C16: the entries a read operation of the sink reads hold none that is
\* soft-deleted and come ordered by timestamp, newest first.
C16_ReadsLiveNewestFirst ==
    IsAuditRead =>
        /\ \A k \in 1..Len(last.result.read) :
              last.result.read[k].id \notin deleted
        /\ NewestFirst(last.result.read)

\* live DENIED_ACCESS rows of the trail
LiveDenials ==
    {k \in 1..Len(activityLog) :
        /\ activityLog[k].action = <<"DENIED_ACCESS">>
        /\ activityLog[k].id \notin deleted}

\* C17: when the storage read fails, a list read returns the empty list and
\* the summary returns zero, empty maps and empty top lists; none throws.
C17_FailedReadIsEmpty ==
    (IsAuditRead /\ ~last.findOk) =>
        /\ last.result.outcome = "return"
        /\ last.list => last.result.value = <<>>
        /\ ~last.list =>
              /\ last.result.value.totalDenials = 0
              /\ DOMAIN last.result.value.denialsByRole = {}
              /\ DOMAIN last.result.value.denialsByRoute = {}
              /\ last.result.value.topDeniedRoutes = <<>>
              /\ last.result.value.topDeniedRoles = <<>>

C17_Witness ==
    /\ IsAuditRead /\ ~last.findOk /\ ~last.list
    /\ LiveDenials # {}
    /\ last.result.outcome = "return"
    /\ last.result.value.totalDenials = 0

\* the guard has just returned, having issued an audit write
GuardReturns ==
    /\ last'.op = "guard" /\ last' # last
    /\ last'.result.audit.fn # "none"

\* storage settles a call
CallSettles == Len(calls') = Len(calls) /\ calls' # calls

IsEdgeFailureOp == last.op = "edge, getToken fails"

\* C19: a request to a gated path whose token validation raises or times out
\* is never passed on to the route.
C19_TokenFailureFailsClosed ==
    (IsEdgeFailureOp /\ last.matched) =>
        /\ last.result.type # "next"
        /\ last.result.status \in {500, 504}

C19_Witness ==
    /\ IsEdgeFailureOp /\ last.matched
    /\ last.cookie.t = "jwt"
    /\ last.failure = "raises"
    /\ last.result.type = "error"

\* C20: with several required roles the guard allows exactly the identities
\* whose stored role is one of them: for ADMIN or WRITER, stored ADMIN and
\* stored WRITER are allowed, stored CUSTOMER, LEARNER and SELLER denied.
C20_RequiredRolesAreAlternatives ==
    (IsGuardOp /\ last.cookie.t = "jwt" /\ Len(last.required) >= 2) =>
        /\ last.result.outcome = "allow" <=>
              \E i \in 1..Len(last.required) : last.stored = last.required[i]
        /\ last.required = CoursesRoles =>
              /\ last.stored \in {"ADMIN", "WRITER"} =>
                    last.result.outcome = "allow"
              /\ last.stored \in {"CUSTOMER", "LEARNER", "SELLER"} =>
                    /\ last.result.outcome = "throw"
                    /\ last.result.error.statusCode = 403

C20_Witness ==
    /\ IsGuardOp /\ last.cookie.t = "jwt"
    /\ last.required = CoursesRoles
    /\ last.stored = "WRITER"
    /\ last.result.outcome = "allow"

\* C21: a successful login returns the id, email and username of the
\* identity the email belongs to and the role stored for it at that time,
\* which is one of the five roles.
C21_LoginReturnsStoredRole ==
    (IsLoginOp /\ last.result.ok) =>
        \E id \in UserIds :
            /\ UserRow(id).email = last.credentials.email.s
            /\ last.result.user = [id |-> id, email |-> UserRow(id).email,
                                    name |-> UserRow(id).username,
                                    role |-> userRole[id]]
            /\ last.result.user.role \in Roles

\* a login after the role was changed returns the new role
C21_Witness ==
    /\ IsLoginOp /\ last.result.ok
    /\ last.result.user.id = "u1"
    /\ last.result.user.role = "SELLER"
    /\ userRole["u1"] = "SELLER"

\* C22: POST /api/courses calls the guard first; a course is created only
\* after the guard returned a session and the body was parsed and passed the
\* title and price checks, and its createdBy is the session user's id.
C22_GuardBeforeCourseCreate ==
    IsCoursesOp =>
        LET r == last.result
        IN  /\ r.trace[1] = "requireRole"
            /\ last.guard.outcome # "allow" =>
                  /\ r.trace = <<"requireRole">>
                  /\ Len(courses) = last.coursesBefore
            /\ HasOp(r.trace, "course.create") =>
                  /\ r.trace = <<"requireRole", "request.json", "course.create">>
                  /\ last.guard.outcome = "allow"
            /\ r.status = 201 =>
                  /\ HasOp(r.trace, "course.create")
                  /\ last.stored \in SeqToSet(CoursesRoles)
                  /\ Len(courses) = last.coursesBefore + 1
                  /\ courses[Len(courses)] = r.course
                  /\ r.course.createdBy = last.guard.session.user.id
                  /\ r.course.createdBy = last.cookie.sub
                  /\ IsString(r.course.title)
                  /\ Len(r.course.title.s) \in 1..MaxTitleLen
                  /\ r.course.isPaid = Bool(TRUE) => r.course.price # Null

C22_Witness ==
    /\ IsCoursesOp /\ last.result.status = 201
    /\ last.stored = "WRITER"
    /\ last.result.course.createdBy = "u1"
    /\ last.result.course.isPaid = Bool(TRUE)
    /\ courses = <<last.result.course>>

\* C23: a write operation issues one storage create and never another, so
\* every entry of the trail is the entry of one call whose create succeeded,
\* a call whose create failed has left none, and there are never more
\* entries than calls.
C23_AtMostOneAttempt ==
    /\ \A i \in 1..Len(calls) : calls[i].attempts = 1
    /\ Len(activityLog) <= Len(calls)
    /\ \A k \in 1..Len(activityLog) :
          Cardinality({i \in 1..Len(calls) :
                          /\ calls[i].created
                          /\ calls[i].row = activityLog[k]}) = 1
    /\ \A j, k \in 1..Len(activityLog) :
          j # k => activityLog[j].id # activityLog[k].id
    /\ \A i \in 1..Len(calls) :
          ~calls[i].created =>
              \A k \in 1..Len(activityLog) : activityLog[k].id # calls[i].row.id

\* two calls have settled, one create failed and was not repeated
C23_Witness ==
    /\ Len(calls) = 2
    /\ \A i \in 1..2 : calls[i].state = "resolved" /\ calls[i].attempts = 1
    /\ ~calls[1].created /\ calls[2].created
    /\ Len(activityLog) = 1

\* C24: under the write and read operations of the sink the trail only
\* grows at its end: every entry stays where it is with all its fields, none
\* is marked deleted, and the creator of every entry is its acting user.
C24_AppendOnly ==
    /\ [](\A k \in 1..Len(activityLog) :
            activityLog[k].createdBy = activityLog[k].userId)
    /\ [][/\ Len(activityLog') >= Len(activityLog)
          /\ \A k \in 1..Len(activityLog) : activityLog'[k] = activityLog[k]
          /\ deleted' = deleted]_vars

\* reads have run over a trail of two entries, which are as they were written
C24_Witness ==
    /\ IsAuditRead /\ last.findOk
    /\ Len(last.result.read) = 2
    /\ Len(activityLog) = 2
    /\ \A k \in 1..2 : \E i \in 1..2 : activityLog[k] = calls[i].row

IsSummary == last.op = "getAccessDenialSummary"

Max(S) == CHOOSE x \in S : \A y \in S : y <= x

\* the timestamp of the newest of `rows` filed under `name`
NewestOfRoute(rows, name) ==
    Max({rows[i].timestamp : i \in {j \in 1..Len(rows) : RouteKey(rows[j]) = name}})

NewestOfRole(rows, name) ==
    Max({rows[i].timestamp : i \in {j \in 1..Len(rows) : RoleKey(rows[j]) = name}})

NonIncreasing(top) ==
    \A j, k \in 1..Len(top) : j < k => top[j].count >= top[k].count

\* C25: the top lists of the summary are ranked by non-increasing count, and
\* of two keys with equal counts the one whose entry comes first among the
\* entries taken newest first, the one with the newer newest entry, is first.
C25_TopListsRankedNewestFirst ==
    (IsSummary /\ last.findOk) =>
        LET v == last.result.value
            rows == last.result.read
        IN  /\ NonIncreasing(v.topDeniedRoutes)
            /\ NonIncreasing(v.topDeniedRoles)
            /\ \A j, k \in 1..Len(v.topDeniedRoutes) :
                  (j < k /\ v.topDeniedRoutes[j].count = v.topDeniedRoutes[k].count)
                  => NewestOfRoute(rows, v.topDeniedRoutes[j].name)
                       >= NewestOfRoute(rows, v.topDeniedRoutes[k].name)
            /\ \A j, k \in 1..Len(v.topDeniedRoles) :
                  (j < k /\ v.topDeniedRoles[j].count = v.topDeniedRoles[k].count)
                  => NewestOfRole(rows, v.topDeniedRoles[j].name)
                       >= NewestOfRole(rows, v.topDeniedRoles[k].name)

\* the middleware has just handled a request
EdgeReturns == last'.op = "edge" /\ (last' # last \/ calls' # calls)

\* C26: a request handled by the middleware, redirected or passed on, issues
\* no audit write and changes nothing stored, and a request passed on goes
\* to the path it asked for.
C26_EdgeWritesNothing ==
    [][EdgeReturns =>
          /\ calls' = calls
          /\ activityLog' = activityLog
          /\ deleted' = deleted
          /\ userRole' = userRole
          /\ courses' = courses
          /\ cookie' = cookie
          /\ last'.result.type = "next" =>
                last'.result.url = [pathname |-> last'.pathname, search |-> <<>>]]_vars

\* a redirected request on a gated path has left the trail empty
C26_Witness ==
    /\ IsEdgeOp /\ last.matched
    /\ last.result.type = "redirect"
    /\ calls = <<>> /\ activityLog = <<>>

RECURSIVE SumOver(_, _)
SumOver(map, keys) ==
    IF keys = {} THEN 0
    ELSE LET k == CHOOSE x \in keys : TRUE
         IN  map[k] + SumOver(map, keys \ {k})

SumCounts(map) == SumOver(map, DOMAIN map)

TopAgrees(top, map) ==
    /\ Len(top) <= TopCount
    /\ \A i \in 1..Len(top) :
          /\ top[i].name \in DOMAIN map
          /\ top[i].count = map[top[i].name]

\* one key more than a top list holds
ManyKeys == [i \in 1..(TopCount + 1) |-> <<ToString(i)>>]

\* C27: in every summary totalDenials is the sum of the counts by role and
\* the sum of the counts by route, and each top list has at most 10
\* elements, each with the count its key has in the map.
C27_SummaryIsConsistent ==
    IsSummary =>
        LET v == last.result.value
        IN  /\ v.totalDenials = SumCounts(v.denialsByRole)
            /\ v.totalDenials = SumCounts(v.denialsByRoute)
            /\ TopAgrees(v.topDeniedRoutes, v.denialsByRoute)
            /\ TopAgrees(v.topDeniedRoles, v.denialsByRole)
            /\ Len(TopEntries(ManyKeys)) = TopCount

\* two denials of one route, counted under one key
C27_Witness ==
    /\ IsSummary /\ last.findOk
    /\ last.result.value.totalDenials = 2
    /\ Len(last.result.value.topDeniedRoutes) = 1
    /\ last.result.value.topDeniedRoutes[1].count = 2

IsLogsRead == last.op = "getAccessDenialLogs"

\* C28: the reads by role, by route and the summary read entries of kind
\* DENIED_ACCESS only; the read by user reads an entry of another kind only
\* when that very kind was passed as its action filter.
C28_ReportsReadDenialsOnly ==
    IsAuditRead =>
        \A k \in 1..Len(last.result.read) :
            LET kind == last.result.read[k].action
            IN  /\ ~IsLogsRead => kind = <<"DENIED_ACCESS">>
                /\ (IsLogsRead /\ kind # <<"DENIED_ACCESS">>) =>
                      /\ IsString(last.filter)
                      /\ last.filter.s = kind
                /\ (IsLogsRead /\ kind = <<"DENIED_ACCESS">>) =>
                      \/ Falsy(last.filter)
                      \/ last.filter.s = kind

\* entries of another kind in the trail
OtherKinds ==
    {k \in 1..Len(activityLog) : activityLog[k].action # <<"DENIED_ACCESS">>}

\* a read by user with the caller's own action as filter finds the entry
\* that no read by role finds
C28_Witness ==
    /\ IsLogsRead /\ last.findOk
    /\ last.filter = Text("CUSTOM")
    /\ Len(last.result.read) = 1
    /\ last.result.read[1].action = <<"CUSTOM">>
    /\ Cardinality(OtherKinds) = 2

\* C29: a request to POST /api/shop whose body is not JSON is answered as
\* the empty object is: with the 400 envelope naming the missing items, and
\* the schema was run.
C29_UnparsableBodyIs400 ==
    (IsShopOp /\ last.body = BadJson) =>
        /\ last.result.status = 400
        /\ last.result = shopPOST(EmptyObject)
        /\ last.result.json.success = Bool(FALSE)
        /\ last.result.json.error.message = "Invalid request payload"
        /\ last.result.json.error.issues =
              <<[path |-> <<"items">>, message |-> "Required"]>>
        /\ HasOp(last.result.trace, "orderSchema.safeParse")

C29_Witness ==
    /\ IsShopOp /\ last.body = BadJson
    /\ last.cookie.t = "jwt"
    /\ last.result.status = 400
    /\ Len(last.result.json.error.issues) = 1

\* ---------------------------------------------------------------------
\* shutdown

Exited == process.exit # NoExit
HookDone(c) == c.hook \in {"none", "resolved"}

\* within one call of shutdown the disconnect starts after that call's hook
\* has completed, and the code that ends the process is 0 only when the
\* call that ended it saw its hook and its disconnect succeed, 1 when it
\* saw one of them fail
ShutdownOrderedPerCall ==
    /\ \A i \in DOMAIN process.shutdowns :
          process.shutdowns[i].disconnect # "none"
              => HookDone(process.shutdowns[i])
    /\ Exited => process.exit.code \in {0, 1}
    /\ process.exit = Exit(0) =>
          \E i \in DOMAIN process.shutdowns :
              /\ HookDone(process.shutdowns[i])
              /\ process.shutdowns[i].disconnect = "resolved"
    /\ process.exit = Exit(1) =>
          \E i \in DOMAIN process.shutdowns :
              \/ process.shutdowns[i].hook \in {"threw", "rejected"}
              \/ process.shutdowns[i].disconnect = "rejected"

\* every delivery is followed by the exit of the process
DeliveryLeadsToExit == (process.shutdowns # <<>>) ~> Exited

\* a second delivery found the first shutdown still in progress
SecondSignalDuringShutdown ==
    /\ Len(process.shutdowns) = 2
    /\ process.onShutdown
    /\ Exited

\* C30: every delivery is followed by the exit of the process; no disconnect
\* has been started while a call of the hook is still running; and the exit
\* code is 0 only if, for every delivery, the hook and the disconnect
\* succeeded, and is 1 otherwise.
C30_GracefulShutdown ==
    /\ [](\A i, j \in DOMAIN process.shutdowns :
             process.shutdowns[i].disconnect # "none"
                 => process.shutdowns[j].hook # "pending")
    /\ [](process.exit = Exit(0) =>
             \A i \in DOMAIN process.shutdowns :
                 /\ HookDone(process.shutdowns[i])
                 /\ process.shutdowns[i].disconnect = "resolved")
    /\ [](Exited => process.exit.code \in {0, 1})
    /\ DeliveryLeadsToExit

=============================================================================
